---- MODULE Spec2Model ----
(***************************************************************************)
(* SmartShell AI (src/smartshell.py): the translation dispatcher           *)
(* (translate, llm_translate, rule_based_translate, ensure_model_loaded),  *)
(* the threaded command Runner (run_async, cancel, _worker) and the GUI    *)
(* that drives them (SmartShellGUI, log_entry).                            *)
(*                                                                         *)
(* Python strings are sequences of one-character strings, so that strip,   *)
(* lower, the substring test and the backtick slicing are computed as the  *)
(* code computes them.                                                     *)
(*                                                                         *)
(* TSpec     the translation functions, called with any prompt of Prompts  *)
(*           while the model capability behaves in any way of ModelEnvs.   *)
(* LSpec     threads that call ensure_model_loaded() concurrently.         *)
(* Spec      the Runner, its worker threads and its processes, with a      *)
(*           caller that starts runs one after the other, calls cancel()   *)
(*           at any moment and polls the queue.                            *)
(* RerunSpec the Runner with a caller that starts one run more than that.  *)
(* FairSpec  the Runner with one run, under weak fairness of the threads.  *)
(* GuiSpec   the program: SmartShellGUI driving its Runner, with a user who *)
(*           operates the buttons and the Return key at any moment.        *)
(* Gui1Spec  the program with a user who starts one run.                   *)
(***************************************************************************)
EXTENDS Integers, Sequences, FiniteSets, TLC

\* ------------------------------------------------------------------------
\* str helpers
\* ------------------------------------------------------------------------

\* The characters str.strip() removes (those the inputs below can hold).
Whitespace == {" ", "\t", "\n"}

RECURSIVE lstrip(_)
lstrip(s) ==
    IF s # <<>> /\ Head(s) \in Whitespace THEN lstrip(Tail(s)) ELSE s

RECURSIVE rstrip(_)
rstrip(s) ==
    IF s # <<>> /\ s[Len(s)] \in Whitespace
    THEN rstrip(SubSeq(s, 1, Len(s) - 1))
    ELSE s

\* str.strip()
strip(s) == rstrip(lstrip(s))

UpperChars ==
    <<"A", "B", "C", "D", "E", "F", "G", "H", "I", "J", "K", "L", "M", "N",
       "O", "P", "Q", "R", "S", "T", "U", "V", "W", "X", "Y", "Z", "Α", "Ά",
       "Β", "Γ", "Δ", "Ε", "Έ", "Ζ", "Η", "Ή", "Θ", "Ι", "Ί", "Κ", "Λ", "Μ",
       "Ν", "Ξ", "Ο", "Ό", "Π", "Ρ", "Σ", "Τ", "Υ", "Ύ", "Φ", "Χ", "Ψ", "Ω",
       "Ώ">>

LowerChars ==
    <<"a", "b", "c", "d", "e", "f", "g", "h", "i", "j", "k", "l", "m", "n",
       "o", "p", "q", "r", "s", "t", "u", "v", "w", "x", "y", "z", "α", "ά",
       "β", "γ", "δ", "ε", "έ", "ζ", "η", "ή", "θ", "ι", "ί", "κ", "λ", "μ",
       "ν", "ξ", "ο", "ό", "π", "ρ", "σ", "τ", "υ", "ύ", "φ", "χ", "ψ", "ω",
       "ώ">>

lowerChar(c) ==
    IF \E i \in 1..Len(UpperChars) : UpperChars[i] = c
    THEN LowerChars[CHOOSE i \in 1..Len(UpperChars) : UpperChars[i] = c]
    ELSE c

\* str.lower()
lower(s) == [i \in 1..Len(s) |-> lowerChar(s[i])]

\* k in s  (substring containment)
Contains(s, k) ==
    \E i \in 0..(Len(s) - Len(k)) : SubSeq(s, i + 1, i + Len(k)) = k

\* The backtick character (U+0060), which a TLA+ string literal cannot hold.
Tick == "backtick"

\* s.startswith(c) / s.endswith(c) for a one-character c
startswith(s, c) == s # <<>> /\ s[1] = c
endswith(s, c) == s # <<>> /\ s[Len(s)] = c

\* ------------------------------------------------------------------------
\* Rule-based translation
\* ------------------------------------------------------------------------

CmdUpgrade ==
    <<"s", "u", "d", "o", " ", "a", "p", "t", " ", "u", "p", "d", "a", "t",
       "e", " ", "&", "&", " ", "s", "u", "d", "o", " ", "a", "p", "t", " ",
       "u", "p", "g", "r", "a", "d", "e", " ", "-", "y">>
CmdClean ==
    <<"s", "u", "d", "o", " ", "a", "p", "t", " ", "c", "l", "e", "a", "n">>
CmdIp ==
    <<"i", "p", " ", "a">>
CmdInstallVlc ==
    <<"s", "u", "d", "o", " ", "a", "p", "t", " ", "i", "n", "s", "t", "a",
       "l", "l", " ", "-", "y", " ", "v", "l", "c">>
CmdLs ==
    <<"l", "s", " ", "-", "l", "a">>
CmdPing ==
    <<"p", "i", "n", "g", " ", "-", "c", " ", "4", " ", "g", "o", "o", "g",
       "l", "e", ".", "c", "o", "m">>
CmdNoMapping ==
    <<"e", "c", "h", "o", " ", "'", "N", "o", " ", "k", "n", "o", "w", "n",
       " ", "m", "a", "p", "p", "i", "n", "g", ";", " ", "p", "l", "e", "a",
       "s", "e", " ", "r", "e", "f", "i", "n", "e", " ", "y", "o", "u", "r",
       " ", "r", "e", "q", "u", "e", "s", "t", ".", "'">>

\* The dict literal of rule_based_translate, in its declared (insertion) order.
rules == <<
    [k |-> <<"κ", "ά", "ν", "ε", " ", "u", "p", "d", "a", "t", "e">>,
     v |-> CmdUpgrade],
    [k |-> <<"ά", "δ", "ε", "ι", "α", "σ", "ε", " ", "τ", "η", "ν", " ", "c",
         "a", "c", "h", "e">>,
     v |-> CmdClean],
    [k |-> <<"i", "p">>,
     v |-> CmdIp],
    [k |-> <<"u", "p", "g", "r", "a", "d", "e">>,
     v |-> CmdUpgrade],
    [k |-> <<"i", "n", "s", "t", "a", "l", "l", " ", "v", "l", "c">>,
     v |-> CmdInstallVlc],
    [k |-> <<"l", "i", "s", "t", " ", "f", "i", "l", "e", "s">>,
     v |-> CmdLs],
    [k |-> <<"p", "i", "n", "g", " ", "g", "o", "o", "g", "l", "e">>,
     v |-> CmdPing] >>

\* for k, v in rules.items(): if k in low: return v   (from index i on)
RECURSIVE rules_scan(_, _)
rules_scan(low, i) ==
    IF i > Len(rules) THEN CmdNoMapping
    ELSE IF Contains(low, rules[i].k) THEN rules[i].v
    ELSE rules_scan(low, i + 1)

RECURSIVE rules_scan_last(_, _)
rules_scan_last(low, i) ==
    IF i < 1 THEN CmdNoMapping
    ELSE IF Contains(low, rules[i].k) THEN rules[i].v
    ELSE rules_scan_last(low, i - 1)

\* Mutant: the table is scanned backwards, so the last declared match wins.
rule_based_translate_last(prompt) ==
    rules_scan_last(lower(strip(prompt)), Len(rules))

rule_based_translate(prompt) ==
    rules_scan(lower(strip(prompt)), 1)

\* ------------------------------------------------------------------------
\* Inputs of the translation specification
\* ------------------------------------------------------------------------

PEmpty == <<>>
PBlank == <<" ", " ">>
PBlankTab == <<" ", "\t">>
PListFiles == <<"l", "i", "s", "t", " ", "f", "i", "l", "e", "s">>
PInstallVlc == <<"i", "n", "s", "t", "a", "l", "l", " ", "v", "l", "c">>
PObscure == <<"d", "o", " ", "s", "o", "m", "e", "t", "h", "i", "n", "g",
     " ", "o", "b", "s", "c", "u", "r", "e">>
PUpgradePip == <<"u", "p", "g", "r", "a", "d", "e", " ", "p", "i", "p">>
PListFilesCaps == <<" ", "P", "l", "e", "a", "s", "e", " ", "L", "I", "S",
     "T", " ", "F", "i", "l", "e", "s", " ">>
PPingInstall == <<"i", "n", "s", "t", "a", "l", "l", " ", "v", "l", "c", " ",
     "t", "h", "e", "n", " ", "p", "i", "n", "g", " ", "g", "o", "o", "g",
     "l", "e">>
PGreekUpdate == <<"Κ", "Ά", "Ν", "Ε", " ", "U", "P", "D", "A", "T", "E", " ",
     "τ", "ώ", "ρ", "α">>
PGreekCache == <<"ά", "δ", "ε", "ι", "α", "σ", "ε", " ", "τ", "η", "ν", " ",
     "c", "a", "c", "h", "e">>
PZip == <<"z", "i", "p">>
PCheckIp ==
    <<"c", "h", "e", "c", "k", " ", "m", "y", " ", "I", "P", " ", "a", "d",
      "d", "r", "e", "s", "s">>

Prompts ==
    { PEmpty, PBlank, PBlankTab, PListFiles, PInstallVlc, PObscure,
      PUpgradePip, PListFilesCaps, PPingInstall, PGreekUpdate, PGreekCache,
      PZip, PCheckIp }

\* What the model call can give back as choices[0].text.
RawEmpty == <<>>
RawBlank == <<" ">>
RawLs == <<" ", "l", "s", " ", "-", "l", "a">>
RawTicked == <<" ", Tick, "l", "s", " ", "-", "l", "a", Tick, " ">>
RawTicksOnly == <<Tick, Tick>>
RawOneTick == <<Tick>>
RawTickedBlank == <<Tick, " ", Tick>>
RawOpenTick == <<Tick, "l", "s">>

Completions ==
    { RawEmpty, RawBlank, RawLs, RawTicked, RawTicksOnly, RawOneTick,
      RawTickedBlank, RawOpenTick }

\* One behaviour of the model capability during a call: the model file is or
\* is not on disk, and the completion call raises or returns choices[0].text.
NoEnv == [exists |-> FALSE, raise |-> FALSE, text |-> <<>>]

ModelEnvs ==
    { [exists |-> x, raise |-> TRUE, text |-> RawEmpty] : x \in BOOLEAN }
    \cup { [exists |-> x, raise |-> FALSE, text |-> c] :
             x \in BOOLEAN, c \in Completions }

\* ------------------------------------------------------------------------
\* Model-backed translation and the dispatcher
\* ------------------------------------------------------------------------

\* ensure_model_loaded(): llm is the global handle ("None" or "loaded").
ensure_model_loaded(avail, llm, env) ==
    IF ~avail THEN [exc |-> "RuntimeError", llm |-> llm]
    ELSE IF llm = "None"
         THEN IF ~env.exists
              THEN [exc |-> "FileNotFoundError", llm |-> llm]
              ELSE [exc |-> "none", llm |-> "loaded"]
         ELSE [exc |-> "none", llm |-> llm]

\* Mutant: the text between the backticks is not stripped again.
strip_ticks_once(text) ==
    LET cmd == strip(text) IN
    IF startswith(cmd, Tick) /\ endswith(cmd, Tick)
    THEN SubSeq(cmd, 2, Len(cmd) - 1)
    ELSE cmd

\* cmd = (text or "").strip(); one pair of surrounding backticks is cut off.
strip_ticks(text) ==
    LET cmd == strip(text) IN
    IF startswith(cmd, Tick) /\ endswith(cmd, Tick)
    THEN strip(SubSeq(cmd, 2, Len(cmd) - 1))
    ELSE cmd

llm_translate(prompt, avail, llm, env) ==
    LET e == ensure_model_loaded(avail, llm, env) IN
    IF e.exc # "none" THEN [exc |-> e.exc, cmd |-> <<>>, llm |-> e.llm]
    ELSE IF env.raise THEN [exc |-> "Exception", cmd |-> <<>>, llm |-> e.llm]
    ELSE [exc |-> "none", cmd |-> strip_ticks(env.text), llm |-> e.llm]

\* Mutant: the dispatcher has no try/except around the model attempt.
translate_notry(prompt, avail, llm, env) ==
    IF strip(prompt) = <<>>
    THEN [ret |-> <<>>, exc |-> "none", llm |-> llm, calls |-> {},
          attempt |-> "none"]
    ELSE IF avail
    THEN LET m == llm_translate(prompt, avail, llm, env) IN
         [ret |-> m.cmd, exc |-> m.exc, llm |-> m.llm,
          calls |-> {"llm_translate"},
          attempt |-> IF m.exc = "none" THEN "ok" ELSE m.exc]
    ELSE [ret |-> rule_based_translate(prompt), exc |-> "none", llm |-> llm,
          calls |-> {"rule_based_translate"}, attempt |-> "unavailable"]

\* Mutant: the dispatcher has no guard for the blank prompt.
translate_noguard(prompt, avail, llm, env) ==
    IF avail
    THEN LET m == llm_translate(prompt, avail, llm, env) IN
         IF m.exc = "none"
         THEN [ret |-> m.cmd, exc |-> "none", llm |-> m.llm,
               calls |-> {"llm_translate"}, attempt |-> "ok"]
         ELSE [ret |-> rule_based_translate(prompt), exc |-> "none",
               llm |-> m.llm,
               calls |-> {"llm_translate", "rule_based_translate"},
               attempt |-> m.exc]
    ELSE [ret |-> rule_based_translate(prompt), exc |-> "none", llm |-> llm,
          calls |-> {"rule_based_translate"}, attempt |-> "unavailable"]

\* translate(prompt): ret is the returned command, exc the exception that
\* reaches the caller ("none": it returns), calls the strategies it invoked,
\* attempt how the model attempt ended ("none": not attempted).
translate(prompt, avail, llm, env) ==
    IF strip(prompt) = <<>>
    THEN [ret |-> <<>>, exc |-> "none", llm |-> llm, calls |-> {},
          attempt |-> "none"]
    ELSE IF avail
    THEN LET m == llm_translate(prompt, avail, llm, env) IN
         IF m.exc = "none"
         THEN [ret |-> m.cmd, exc |-> "none", llm |-> m.llm,
               calls |-> {"llm_translate"}, attempt |-> "ok"]
         ELSE [ret |-> rule_based_translate(prompt), exc |-> "none",
               llm |-> m.llm,
               calls |-> {"llm_translate", "rule_based_translate"},
               attempt |-> m.exc]
    ELSE [ret |-> rule_based_translate(prompt), exc |-> "none", llm |-> llm,
          calls |-> {"rule_based_translate"}, attempt |-> "unavailable"]

\* ------------------------------------------------------------------------
\* State
\* ------------------------------------------------------------------------

VARIABLES
    LLAMA_AVAILABLE,  \* module global: the llama_cpp import succeeded
    LLM,              \* module global _LLM: "None" or "loaded"
    tOp,              \* the last translation call: "none", "translate",
                      \*   "rule_based_translate"
    tPrompt,          \* its prompt
    tRet,             \* the command it returned
    tExc,             \* the exception it raised to its caller, or "none"
    tCalls,           \* the strategies it invoked
    tAttempt,         \* how its model attempt ended
    tEnv,             \* how the model capability behaved during it
    LLM_LOCK,         \* module global _LLM_LOCK: 0 (free) or its holder
    lpc,              \* position of each thread inside ensure_model_loaded
    lexc,             \* the exception its last call raised, or "none"
    loads,            \* how many times Llama(...) was constructed
    proc,             \* Runner.proc: 0 (None) or the process last spawned
    output_q,         \* Runner.output_q: chunks not yet polled
    shown,            \* chunks _poll_output has taken off the queue
    cancelFlag,       \* Runner._cancel
    pc,               \* position of each worker thread and of the caller
    ret,              \* where a thread inside cancel() returns to
    rd,               \* the process whose stdout a worker iterates
    line,             \* a worker's local variable line
    code,             \* a worker's local variable code
    procs,            \* the spawned processes (the operating system's side)
    expired,          \* time.time() - start > self.timeout, per worker
    doneCalls,        \* the codes on_done was invoked with, per run
    escaped,          \* an exception left the worker thread
    hist,             \* per thread: what has happened to it so far
    btn_run,          \* state of the Translate & Run button
    btn_cancel,       \* state of the Cancel button
    history,          \* the entries log_entry has appended to the history
    job               \* per run: what its on_done closure has captured

lvars == << LLM_LOCK, lpc, lexc, loads >>

tvars ==
    << LLAMA_AVAILABLE, LLM, tOp, tPrompt, tRet, tExc, tCalls, tAttempt,
       tEnv, lvars >>

rvars == << proc, output_q, shown, cancelFlag, pc, ret, rd, line, code,
            procs, expired, doneCalls, escaped, hist >>

gvars == << btn_run, btn_cancel, history, job >>

vars == << tvars, rvars, gvars >>

\* ------------------------------------------------------------------------
\* Bounds and vocabulary of the Runner specification
\* ------------------------------------------------------------------------

\* How many run_async calls the caller of Spec makes.
MaxRuns == 1

\* How many output lines one process emits at most.
MaxLines == 2

\* How many worker threads a behaviour can have: the runs the user of the GUI
\* and the caller of RerunSpec start.
MaxWorkers == 2

Runs == 1..(IF MaxWorkers > MaxRuns THEN MaxWorkers ELSE MaxRuns)

\* The caller's thread (the GUI main loop) is thread 0, worker r is thread r.
Main == 0
Threads == {Main} \cup Runs

\* How many threads call ensure_model_loaded().
MaxLoaders == 3

Loaders == 1..MaxLoaders

\* Exit codes a process ends with by itself.
ExitCodes == {0, 1}

\* Popen.returncode of a process ended by SIGTERM / SIGKILL.
SIGTERM_STATUS == -15
SIGKILL_STATUS == -9

\* The codes _worker passes to on_done after a hang / after an exception.
HANG_CODE == -1
ERROR_CODE == -2

NoProcess ==
    [state |-> "none", status |-> 0, pipe |-> <<>>, eof |-> FALSE,
     sig |-> "none", emitted |-> 0]

\* The history kept of a thread.  Of a run: timedOut (it took the timeout
\* branch), hung (its wait expired), erred (Popen or the stream raised),
\* raised (on_done raised), cancelled (the caller called cancel() while it
\* was active), flagAtStart (the flag was set when it was started).  Of the
\* caller: cancelled (it has called cancel()).
NoHistory ==
    [timedOut |-> FALSE, hung |-> FALSE, erred |-> FALSE, raised |-> FALSE,
     cancelled |-> FALSE, flagAtStart |-> FALSE]

\* A chunk on the queue: by is the worker that put it, src the process a
\* line came from (0 for a notice), n the line's number in its process.
Chunk(by, src, kind, n) == [by |-> by, src |-> src, kind |-> kind, n |-> n]

Active(r) == pc[r] \notin {"idle", "end"}

\* A Popen object nothing refers to any more: self.proc names a newer one.
Detached == [NoProcess EXCEPT !.state = "detached"]

\* What an on_done closure holds: start_ts (the run's ordinal stands for the
\* clock reading), prompt and cmd; by records the strategy that produced cmd,
\* which the closure does not hold.
NoJob == [time |-> 0, prompt |-> <<>>, command |-> <<>>, by |-> "none"]

\* ------------------------------------------------------------------------
\* Initial state
\* ------------------------------------------------------------------------

TInit ==
    /\ LLAMA_AVAILABLE \in BOOLEAN
    /\ LLM = "None"
    /\ tOp = "none"
    /\ tPrompt = <<>>
    /\ tRet = <<>>
    /\ tExc = "none"
    /\ tCalls = {}
    /\ tAttempt = "none"
    /\ tEnv = NoEnv
    /\ LLM_LOCK = 0
    /\ lpc = [t \in Loaders |-> "idle"]
    /\ lexc = [t \in Loaders |-> "none"]
    /\ loads = 0

\* Runner.__init__ and the threads before any call.
RInit ==
    /\ proc = 0
    /\ output_q = <<>>
    /\ shown = <<>>
    /\ cancelFlag = FALSE
    /\ pc = [t \in Threads |-> IF t = Main THEN "ready" ELSE "idle"]
    /\ ret = [t \in Threads |-> "none"]
    /\ rd = [r \in Runs |-> 0]
    /\ line = [r \in Runs |-> 0]
    /\ code = [r \in Runs |-> 0]
    /\ procs = [r \in Runs |-> NoProcess]
    /\ expired = [r \in Runs |-> FALSE]
    /\ doneCalls = [r \in Runs |-> <<>>]
    /\ escaped = [r \in Runs |-> FALSE]
    /\ hist = [r \in Threads |-> NoHistory]

\* SmartShellGUI.__init__: Translate & Run is enabled, Cancel is disabled.
GInit ==
    /\ btn_run = "normal"
    /\ btn_cancel = "disabled"
    /\ history = <<>>
    /\ job = [r \in Runs |-> NoJob]

Init == TInit /\ RInit /\ GInit

\* The Runner specifications leave the translation side alone.
RunnerInit == Init /\ LLAMA_AVAILABLE = FALSE

\* ------------------------------------------------------------------------
\* Translation actions
\* ------------------------------------------------------------------------

\* A call translate(p) while the model capability behaves as env.
Translate(p, env) ==
    LET t == translate(p, LLAMA_AVAILABLE, LLM, env) IN
    /\ tOp' = "translate"
    /\ tPrompt' = p
    /\ tRet' = t.ret
    /\ tExc' = t.exc
    /\ tCalls' = t.calls
    /\ tAttempt' = t.attempt
    /\ tEnv' = env
    /\ LLM' = t.llm
    /\ UNCHANGED << LLAMA_AVAILABLE, lvars, rvars, gvars >>

\* A direct call rule_based_translate(p).
RuleBasedTranslate(p) ==
    /\ tOp' = "rule_based_translate"
    /\ tPrompt' = p
    /\ tRet' = rule_based_translate(p)
    /\ tExc' = "none"
    /\ tCalls' = {"rule_based_translate"}
    /\ tAttempt' = "none"
    /\ tEnv' = NoEnv
    /\ UNCHANGED << LLAMA_AVAILABLE, LLM, lvars, rvars, gvars >>

TNext ==
    \/ \E p \in Prompts, env \in ModelEnvs : Translate(p, env)
    \/ \E p \in Prompts : RuleBasedTranslate(p)

TSpec == Init /\ [][TNext]_vars

\* ------------------------------------------------------------------------
\* ensure_model_loaded(), statement by statement, in concurrent threads
\* ------------------------------------------------------------------------

\* The variables of the translation calls, which the loader steps leave alone.
callvars == << tOp, tPrompt, tRet, tExc, tCalls, tAttempt, tEnv >>

\* Thread t calls ensure_model_loaded(): the LLAMA_AVAILABLE test is made
\* before the lock is requested.
EnsureCall(t) ==
    /\ lpc[t] \in {"idle", "returned", "raised"}
    /\ IF ~LLAMA_AVAILABLE
       THEN /\ lpc' = [lpc EXCEPT ![t] = "raised"]
            /\ lexc' = [lexc EXCEPT ![t] = "RuntimeError"]
       ELSE /\ lpc' = [lpc EXCEPT ![t] = "acquire"]
            /\ lexc' = [lexc EXCEPT ![t] = "none"]
    /\ UNCHANGED << LLAMA_AVAILABLE, LLM, LLM_LOCK, loads, callvars, rvars, gvars >>

\* Mutant: the body is entered without holding the lock.
EnsureAcquire_nolock(t) ==
    /\ lpc[t] = "acquire"
    /\ LLM_LOCK' = t
    /\ lpc' = [lpc EXCEPT ![t] = "locked"]
    /\ UNCHANGED << LLAMA_AVAILABLE, LLM, lexc, loads, callvars, rvars, gvars >>

\* with _LLM_LOCK: the thread blocks until the lock is free and takes it.
EnsureAcquire(t) ==
    /\ lpc[t] = "acquire"
    /\ LLM_LOCK = 0
    /\ LLM_LOCK' = t
    /\ lpc' = [lpc EXCEPT ![t] = "locked"]
    /\ UNCHANGED << LLAMA_AVAILABLE, LLM, lexc, loads, callvars, rvars, gvars >>

\* if _LLM is None: ... if not p.exists(): raise FileNotFoundError.  Leaving
\* the with block, by return or by exception, releases the lock.
EnsureCheck(t) ==
    /\ lpc[t] = "locked"
    /\ \/ /\ LLM # "None"
          /\ lpc' = [lpc EXCEPT ![t] = "returned"]
          /\ LLM_LOCK' = 0
          /\ UNCHANGED lexc
       \/ /\ LLM = "None"
          /\ lpc' = [lpc EXCEPT ![t] = "raised"]
          /\ lexc' = [lexc EXCEPT ![t] = "FileNotFoundError"]
          /\ LLM_LOCK' = 0
       \/ /\ LLM = "None"
          /\ lpc' = [lpc EXCEPT ![t] = "construct"]
          /\ UNCHANGED << LLM_LOCK, lexc >>
    /\ UNCHANGED << LLAMA_AVAILABLE, LLM, loads, callvars, rvars, gvars >>

\* _LLM = Llama(model_path=str(p), n_ctx=SETTINGS.ctx): the constructor
\* returns the model, or raises and _LLM keeps its value.
EnsureConstruct(t) ==
    /\ lpc[t] = "construct"
    /\ LLM_LOCK' = 0
    /\ \/ /\ LLM' = "loaded"
          /\ loads' = loads + 1
          /\ lpc' = [lpc EXCEPT ![t] = "returned"]
          /\ UNCHANGED lexc
       \/ /\ lpc' = [lpc EXCEPT ![t] = "raised"]
          /\ lexc' = [lexc EXCEPT ![t] = "Exception"]
          /\ UNCHANGED << LLM, loads >>
    /\ UNCHANGED << LLAMA_AVAILABLE, callvars, rvars, gvars >>

LNext ==
    \E t \in Loaders :
        \/ EnsureCall(t)
        \/ EnsureAcquire(t)
        \/ EnsureCheck(t)
        \/ EnsureConstruct(t)

LSpec == Init /\ [][LNext]_vars

\* ------------------------------------------------------------------------
\* The operating system's side: the spawned processes
\* ------------------------------------------------------------------------

\* Popen.terminate(): SIGTERM is delivered; the process may die of it, handle
\* it and go on, or exit by itself.
terminate(ps, p) == [ps EXCEPT ![p].sig = "term"]

\* Popen.kill(): SIGKILL ends the process.
kill(ps, p) ==
    [ps EXCEPT ![p].state = "exited", ![p].status = SIGKILL_STATUS,
               ![p].eof = TRUE]

\* Popen.poll() is None
running(p) == p # 0 /\ procs[p].state = "running"

\* The process writes its next line to the pipe.
Emit(p) ==
    /\ procs[p].state = "running"
    /\ ~procs[p].eof
    /\ procs[p].emitted < MaxLines
    /\ procs' = [procs EXCEPT
                   ![p].emitted = @ + 1,
                   ![p].pipe = Append(@, procs[p].emitted + 1)]
    /\ UNCHANGED << tvars, gvars, proc, output_q, shown, cancelFlag, pc, ret,
                    rd, line, code, expired, doneCalls, escaped, hist >>

\* The process closes its output and keeps running.
CloseStdout(p) ==
    /\ procs[p].state = "running"
    /\ ~procs[p].eof
    /\ procs' = [procs EXCEPT ![p].eof = TRUE]
    /\ UNCHANGED << tvars, gvars, proc, output_q, shown, cancelFlag, pc, ret,
                    rd, line, code, expired, doneCalls, escaped, hist >>

\* The process exits by itself with code c.
Exit(p, c) ==
    /\ procs[p].state = "running"
    /\ procs' = [procs EXCEPT ![p].state = "exited", ![p].status = c,
                              ![p].eof = TRUE]
    /\ UNCHANGED << tvars, gvars, proc, output_q, shown, cancelFlag, pc, ret,
                    rd, line, code, expired, doneCalls, escaped, hist >>

\* The process dies of the SIGTERM it was sent.
DieOnTerm(p) ==
    /\ procs[p].state = "running"
    /\ procs[p].sig = "term"
    /\ procs' = [procs EXCEPT ![p].state = "exited",
                              ![p].status = SIGTERM_STATUS, ![p].eof = TRUE]
    /\ UNCHANGED << tvars, gvars, proc, output_q, shown, cancelFlag, pc, ret,
                    rd, line, code, expired, doneCalls, escaped, hist >>

\* Wall-clock time passes the worker's timeout: from now on
\* (time.time() - start) > self.timeout.  Only the streaming loop reads it.
Elapse(r) ==
    /\ pc[r] \in {"iter", "read", "check", "put"}
    /\ ~expired[r]
    /\ expired' = [expired EXCEPT ![r] = TRUE]
    /\ UNCHANGED << tvars, gvars, proc, output_q, shown, cancelFlag, pc, ret,
                    rd, line, code, procs, doneCalls, escaped, hist >>

\* ------------------------------------------------------------------------
\* Runner.run_async, Runner.cancel and the caller's polling
\* ------------------------------------------------------------------------

\* run_async(cmd, on_done): thread r is started on _worker.  The callers of
\* the Runner specifications keep to one run at a time: run r is started when
\* the runs before it have ended.
run_async(r) ==
    /\ pc[Main] = "ready"
    /\ pc[r] = "idle"
    /\ \A s \in Runs : s < r => pc[s] = "end"
    /\ pc' = [pc EXCEPT ![r] = "spawn"]
    /\ hist' = [hist EXCEPT ![r].flagAtStart = cancelFlag]
    /\ UNCHANGED << tvars, gvars, proc, output_q, shown, cancelFlag, ret, rd,
                    line, code, procs, expired, doneCalls, escaped >>

\* Mutant: run_async clears the cancel flag before it starts the thread.
RunAsync_clear(r) ==
    /\ r <= MaxRuns
    /\ pc[Main] = "ready"
    /\ pc[r] = "idle"
    /\ \A s \in Runs : s < r => pc[s] = "end"
    /\ pc' = [pc EXCEPT ![r] = "spawn"]
    /\ hist' = [hist EXCEPT ![r].flagAtStart = cancelFlag]
    /\ cancelFlag' = FALSE
    /\ UNCHANGED << tvars, gvars, proc, output_q, shown, ret, rd, line, code,
                    procs, expired, doneCalls, escaped >>

\* The caller of Spec calls run_async, MaxRuns times at most.
RunAsync(r) ==
    /\ r <= MaxRuns
    /\ run_async(r)

\* The caller of RerunSpec calls run_async, once per worker at most.
Rerun(r) ==
    /\ r <= MaxWorkers
    /\ run_async(r)

\* cancel(), lines 288-294, run by thread t: the flag is set; a process that
\* is still running is sent SIGTERM and the thread sleeps, otherwise cancel()
\* returns to back.
cancel_enter(t, back) ==
    /\ cancelFlag' = TRUE
    /\ IF running(proc)
       THEN /\ procs' = terminate(procs, proc)
            /\ pc' = [pc EXCEPT ![t] = "sleep"]
            /\ ret' = [ret EXCEPT ![t] = back]
       ELSE /\ pc' = [pc EXCEPT ![t] = back]
            /\ UNCHANGED << procs, ret >>

\* The caller calls cancel().
Cancel ==
    /\ pc[Main] = "ready"
    /\ cancel_enter(Main, "ready")
    /\ hist' = [t \in Threads |->
                  IF t = Main
                  THEN [hist[t] EXCEPT !.cancelled = TRUE]
                  ELSE IF Active(t)
                       THEN [hist[t] EXCEPT !.cancelled = TRUE]
                       ELSE hist[t]]
    /\ UNCHANGED << tvars, gvars, proc, output_q, shown, rd, line, code,
                    expired, doneCalls, escaped >>

\* A worker enters the cancel() it calls itself (line 323 or line 331).
WorkerCancel(r) ==
    /\ pc[r] = "cancel"
    /\ cancel_enter(r, ret[r])
    /\ UNCHANGED << tvars, gvars, proc, output_q, shown, rd, line, code,
                    expired, doneCalls, escaped, hist >>

\* cancel(), lines 295-297: after time.sleep(0.7) a process still running is
\* killed; cancel() returns.
CancelSleep(t) ==
    /\ pc[t] = "sleep"
    /\ procs' = IF running(proc) THEN kill(procs, proc) ELSE procs
    /\ pc' = [pc EXCEPT ![t] = ret[t]]
    /\ UNCHANGED << tvars, gvars, proc, output_q, shown, cancelFlag, ret, rd,
                    line, code, expired, doneCalls, escaped, hist >>

\* _poll_output(): the consumer takes every queued chunk, in queue order.
Poll ==
    /\ pc[Main] = "ready"
    /\ output_q # <<>>
    /\ shown' = shown \o output_q
    /\ output_q' = <<>>
    /\ UNCHANGED << tvars, gvars, proc, cancelFlag, pc, ret, rd, line, code,
                    procs, expired, doneCalls, escaped, hist >>

\* ------------------------------------------------------------------------
\* Runner._worker, one action per step of thread r
\* ------------------------------------------------------------------------

\* Lines 302-313: start = time.time(); self.proc = subprocess.Popen(...).
\* Popen may raise (OSError, ValueError from shlex.split).
Spawn(r) ==
    /\ pc[r] = "spawn"
    /\ \/ /\ procs' = [p \in Runs |->
                         IF p = r THEN [NoProcess EXCEPT !.state = "running"]
                         ELSE IF p = proc /\ \A s \in Runs : rd[s] # p
                         THEN Detached
                         ELSE procs[p]]
          /\ proc' = r
          /\ pc' = [pc EXCEPT ![r] = "iter"]
          /\ UNCHANGED hist
       \/ /\ pc' = [pc EXCEPT ![r] = "exc"]
          /\ hist' = [hist EXCEPT ![r].erred = TRUE]
          /\ UNCHANGED << procs, proc >>
    /\ UNCHANGED << tvars, gvars, output_q, shown, cancelFlag, ret, rd, line,
                    code, expired, doneCalls, escaped >>

\* Lines 314-315: self.proc.stdout is read once, when the for loop starts.
Iter(r) ==
    /\ pc[r] = "iter"
    /\ rd' = [rd EXCEPT ![r] = proc]
    /\ pc' = [pc EXCEPT ![r] = "read"]
    /\ UNCHANGED << tvars, gvars, proc, output_q, shown, cancelFlag, ret,
                    line, code, procs, expired, doneCalls, escaped, hist >>

\* Line 315: the iterator's next line.  It blocks while the pipe is empty and
\* open, ends the loop at end of file, and raises when a line cannot be
\* decoded (text=True).
Read(r) ==
    /\ pc[r] = "read"
    /\ \/ /\ procs[rd[r]].pipe # <<>>
          /\ line' = [line EXCEPT ![r] = Head(procs[rd[r]].pipe)]
          /\ procs' = [procs EXCEPT ![rd[r]].pipe = Tail(@)]
          /\ pc' = [pc EXCEPT ![r] = "check"]
          /\ UNCHANGED hist
       \/ /\ procs[rd[r]].pipe # <<>>
          /\ procs' = [procs EXCEPT ![rd[r]].pipe = Tail(@)]
          /\ pc' = [pc EXCEPT ![r] = "exc"]
          /\ hist' = [hist EXCEPT ![r].erred = TRUE]
          /\ UNCHANGED line
       \/ /\ procs[rd[r]].pipe = <<>>
          /\ procs[rd[r]].eof
          /\ pc' = [pc EXCEPT ![r] = "wait"]
          /\ UNCHANGED << line, procs, hist >>
    /\ UNCHANGED << tvars, gvars, proc, output_q, shown, cancelFlag, ret, rd,
                    code, expired, doneCalls, escaped >>

\* Mutant: the loop does not test the flag.
Check_noflag(r) ==
    /\ pc[r] = "check"
    /\ pc' = [pc EXCEPT ![r] = "put"]
    /\ UNCHANGED << tvars, gvars, proc, output_q, shown, cancelFlag, ret, rd,
                    line, code, procs, expired, doneCalls, escaped, hist >>

\* Lines 316-317: if self._cancel.is_set(): break
Check(r) ==
    /\ pc[r] = "check"
    /\ pc' = [pc EXCEPT ![r] = IF cancelFlag THEN "wait" ELSE "put"]
    /\ UNCHANGED << tvars, gvars, proc, output_q, shown, cancelFlag, ret, rd,
                    line, code, procs, expired, doneCalls, escaped, hist >>

\* Mutant: the line is not put on the queue.
Put_dropped(r) ==
    /\ pc[r] = "put"
    /\ IF expired[r]
       THEN /\ output_q' = Append(output_q, Chunk(r, 0, "timeout", 0))
            /\ pc' = [pc EXCEPT ![r] = "cancel"]
            /\ ret' = [ret EXCEPT ![r] = "wait"]
            /\ hist' = [hist EXCEPT ![r].timedOut = TRUE]
       ELSE /\ pc' = [pc EXCEPT ![r] = "read"]
            /\ UNCHANGED << output_q, ret, hist >>
    /\ UNCHANGED << tvars, gvars, proc, shown, cancelFlag, rd, line, code,
                    procs, expired, doneCalls, escaped >>

\* Lines 318-324: the line is put on the queue; past the timeout the notice
\* is put, cancel() is called and the loop is left.
Put(r) ==
    /\ pc[r] = "put"
    /\ IF expired[r]
       THEN /\ output_q' = output_q \o << Chunk(r, rd[r], "line", line[r]),
                                          Chunk(r, 0, "timeout", 0) >>
            /\ pc' = [pc EXCEPT ![r] = "cancel"]
            /\ ret' = [ret EXCEPT ![r] = "wait"]
            /\ hist' = [hist EXCEPT ![r].timedOut = TRUE]
       ELSE /\ output_q' = Append(output_q, Chunk(r, rd[r], "line", line[r]))
            /\ pc' = [pc EXCEPT ![r] = "read"]
            /\ UNCHANGED << ret, hist >>
    /\ UNCHANGED << tvars, gvars, proc, shown, cancelFlag, rd, line, code,
                    procs, expired, doneCalls, escaped >>

\* Mutant: the wait's return value is dropped and 0 is reported.
WaitReturn_zero(r) ==
    /\ pc[r] = "wait"
    /\ proc # 0
    /\ procs[proc].state = "exited"
    /\ code' = [code EXCEPT ![r] = 0]
    /\ pc' = [pc EXCEPT ![r] = "call"]
    /\ UNCHANGED << tvars, gvars, proc, output_q, shown, cancelFlag, ret, rd,
                    line, procs, expired, doneCalls, escaped, hist >>

\* Line 325: code = self.proc.wait(timeout=5) returns the exit status of the
\* process self.proc names now.
WaitReturn(r) ==
    /\ pc[r] = "wait"
    /\ proc # 0
    /\ procs[proc].state = "exited"
    /\ code' = [code EXCEPT ![r] = procs[proc].status]
    /\ pc' = [pc EXCEPT ![r] = "call"]
    /\ UNCHANGED << tvars, gvars, proc, output_q, shown, cancelFlag, ret, rd,
                    line, procs, expired, doneCalls, escaped, hist >>

\* Lines 325, 327-331: the process has not exited when the 5 seconds are
\* over; TimeoutExpired is caught, the notice is put, cancel() is called.
WaitExpire(r) ==
    /\ pc[r] = "wait"
    /\ running(proc)
    /\ output_q' = Append(output_q, Chunk(r, 0, "hang", 0))
    /\ pc' = [pc EXCEPT ![r] = "cancel"]
    /\ ret' = [ret EXCEPT ![r] = "call_hang"]
    /\ hist' = [hist EXCEPT ![r].hung = TRUE]
    /\ UNCHANGED << tvars, gvars, proc, shown, cancelFlag, rd, line, code,
                    procs, expired, doneCalls, escaped >>

\* The worker function returns (or an exception leaves it): the thread ends
\* and its local variables with it.
finish(r) ==
    /\ pc' = [pc EXCEPT ![r] = "end"]
    /\ ret' = [ret EXCEPT ![r] = "none"]
    /\ rd' = [rd EXCEPT ![r] = 0]
    /\ line' = [line EXCEPT ![r] = 0]
    /\ code' = [code EXCEPT ![r] = 0]
    /\ expired' = [expired EXCEPT ![r] = FALSE]

\* Mutant: the entry is written without its exit code.
entry_nocode(r, c) ==
    [time |-> job[r].time, prompt |-> job[r].prompt,
     command |-> job[r].command]

\* The entry on_done passes to log_entry.
entry(r, c) ==
    [time |-> job[r].time, prompt |-> job[r].prompt,
     command |-> job[r].command, exit_code |-> c]

\* The callback on_done(code), run by worker r.  Of a run on_translate
\* started it is the closure of lines 449-458: the buttons are reset, then
\* log_entry appends the entry to the history file, or raises (the file
\* cannot be opened or written) and on_done with it.  The callback of a run
\* another caller started returns or raises and touches nothing of the GUI.
on_done(r, c, logged) ==
    IF job[r] = NoJob
    THEN UNCHANGED gvars
    ELSE /\ btn_run' = "normal"
         /\ btn_cancel' = "disabled"
         /\ history' = IF logged THEN Append(history, entry(r, c))
                                ELSE history
         /\ UNCHANGED job

\* Line 326: on_done(code), inside the try block: an exception the callback
\* raises is caught by the worker's own except Exception clause.
CallDone(r) ==
    /\ pc[r] = "call"
    /\ doneCalls' = [doneCalls EXCEPT ![r] = Append(@, code[r])]
    /\ \/ /\ on_done(r, code[r], TRUE)
          /\ finish(r)
          /\ UNCHANGED hist
       \/ /\ on_done(r, code[r], FALSE)
          /\ pc' = [pc EXCEPT ![r] = "exc"]
          /\ hist' = [hist EXCEPT ![r].raised = TRUE]
          /\ UNCHANGED << ret, rd, line, code, expired >>
    /\ UNCHANGED << tvars, proc, output_q, shown, cancelFlag, procs, escaped >>

\* Line 332: on_done(-1), inside an except clause: an exception the callback
\* raises leaves the worker.
CallHang(r) ==
    /\ pc[r] = "call_hang"
    /\ doneCalls' = [doneCalls EXCEPT ![r] = Append(@, HANG_CODE)]
    /\ finish(r)
    /\ \/ /\ on_done(r, HANG_CODE, TRUE)
          /\ UNCHANGED << escaped, hist >>
       \/ /\ on_done(r, HANG_CODE, FALSE)
          /\ escaped' = [escaped EXCEPT ![r] = TRUE]
          /\ hist' = [hist EXCEPT ![r].raised = TRUE]
    /\ UNCHANGED << tvars, proc, output_q, shown, cancelFlag, procs >>

\* Lines 333-336: except Exception as e: the error notice is put.
Handler(r) ==
    /\ pc[r] = "exc"
    /\ output_q' = Append(output_q, Chunk(r, 0, "error", 0))
    /\ pc' = [pc EXCEPT ![r] = "call_err"]
    /\ UNCHANGED << tvars, gvars, proc, shown, cancelFlag, ret, rd, line,
                    code, procs, expired, doneCalls, escaped, hist >>

\* Line 337: on_done(-2), inside an except clause.
CallError(r) ==
    /\ pc[r] = "call_err"
    /\ doneCalls' = [doneCalls EXCEPT ![r] = Append(@, ERROR_CODE)]
    /\ finish(r)
    /\ \/ /\ on_done(r, ERROR_CODE, TRUE)
          /\ UNCHANGED << escaped, hist >>
       \/ /\ on_done(r, ERROR_CODE, FALSE)
          /\ escaped' = [escaped EXCEPT ![r] = TRUE]
          /\ hist' = [hist EXCEPT ![r].raised = TRUE]
    /\ UNCHANGED << tvars, proc, output_q, shown, cancelFlag, procs >>

\* One step of worker thread r.
Worker(r) ==
    \/ Spawn(r)
    \/ Iter(r)
    \/ Read(r)
    \/ Check(r)
    \/ Put(r)
    \/ WorkerCancel(r)
    \/ CancelSleep(r)
    \/ WaitReturn(r)
    \/ WaitExpire(r)
    \/ CallDone(r)
    \/ CallHang(r)
    \/ Handler(r)
    \/ CallError(r)

\* One step of the caller's thread.
Caller ==
    \/ \E r \in Runs : RunAsync(r)
    \/ Cancel
    \/ CancelSleep(Main)
    \/ Poll

\* One step of the environment: a process or the clock.
Environment ==
    \/ \E p \in Runs : Emit(p)
    \/ \E p \in Runs : CloseStdout(p)
    \/ \E p \in Runs, c \in ExitCodes : Exit(p, c)
    \/ \E p \in Runs : DieOnTerm(p)
    \/ \E r \in Runs : Elapse(r)

Next ==
    \/ Caller
    \/ \E r \in Runs : Worker(r)
    \/ Environment

Spec == RunnerInit /\ [][Next]_vars

\* The Runner with a caller that goes on to start further runs.
RerunNext ==
    \/ \E r \in Runs : Rerun(r)
    \/ Cancel
    \/ CancelSleep(Main)
    \/ Poll
    \/ \E r \in Runs : Worker(r)
    \/ Environment

RerunSpec == RunnerInit /\ [][RerunNext]_vars

\* The Runner when the caller starts one run only.
FairNext ==
    \/ RunAsync(1)
    \/ Cancel
    \/ CancelSleep(Main)
    \/ Poll
    \/ Worker(1)
    \/ Environment

\* That Runner under the scheduling the threads have: a worker thread that
\* can take a step takes one, and so does the caller once it is inside
\* cancel().  Nothing makes a process write or exit, and nothing makes the
\* caller call.
FairSpec ==
    /\ RunnerInit
    /\ [][FairNext]_vars
    /\ WF_vars(Worker(1))
    /\ WF_vars(CancelSleep(Main))

\* ------------------------------------------------------------------------
\* SmartShellGUI: on_translate, on_cancel and the widgets that call them
\* ------------------------------------------------------------------------

\* What the user types into the entry, and how the model capability behaves
\* during a translation the GUI asks for.
GuiPrompts == { PBlank, PListFiles }

GuiEnvs ==
    { [exists |-> TRUE, raise |-> FALSE, text |-> RawTicked],
      [exists |-> FALSE, raise |-> FALSE, text |-> RawEmpty] }

\* The strategy that produced the command a translate call returned.
produced_by(t) ==
    IF t.attempt = "ok" THEN "Model"
    ELSE IF "rule_based_translate" \in t.calls THEN "RuleBased"
    ELSE "none"

\* on_translate() with p in the entry, the model capability behaving as env
\* and the user answering ok to "Run this?".  A blank prompt, a failed
\* translation, an empty command and the answer No return before anything is
\* run; otherwise the buttons are switched, on_done is made and
\* runner.run_async(cmd, on_done) starts the next worker thread.
on_translate(p, env, ok) ==
    LET prompt == strip(p)
        t == translate(prompt, LLAMA_AVAILABLE, LLM, env)
    IN
    /\ pc[Main] = "ready"
    /\ \E r \in Runs : r <= MaxWorkers /\ pc[r] = "idle"
    /\ IF prompt = <<>>
       THEN UNCHANGED << LLM, gvars, pc, hist >>
       ELSE /\ LLM' = t.llm
            /\ IF t.exc # "none" \/ t.ret = <<>> \/ ~ok
               THEN UNCHANGED << gvars, pc, hist >>
               ELSE \E r \in Runs :
                      /\ pc[r] = "idle"
                      /\ \A s \in Runs : s < r => pc[s] # "idle"
                      /\ btn_run' = "disabled"
                      /\ btn_cancel' = "normal"
                      /\ job' = [job EXCEPT ![r] =
                                   [time |-> r, prompt |-> prompt,
                                    command |-> t.ret,
                                    by |-> produced_by(t)]]
                      /\ pc' = [pc EXCEPT ![r] = "spawn"]
                      /\ hist' = [hist EXCEPT ![r].flagAtStart = cancelFlag]
                      /\ UNCHANGED history
    /\ UNCHANGED << LLAMA_AVAILABLE, callvars, lvars, proc, output_q, shown,
                    cancelFlag, ret, rd, line, code, procs, expired,
                    doneCalls, escaped >>

\* The user clicks Translate & Run: a disabled button does not call.
ClickRun(p, env, ok) ==
    /\ btn_run = "normal"
    /\ on_translate(p, env, ok)

\* The user presses Return in the entry: the binding of line 375 calls
\* on_translate whatever the state of the buttons.
PressReturn(p, env, ok) == on_translate(p, env, ok)

\* The user clicks Cancel: on_cancel() calls runner.cancel().
ClickCancel ==
    /\ btn_cancel = "normal"
    /\ Cancel

\* One event handled by the Tk main loop.
Gui ==
    \/ \E p \in GuiPrompts, env \in GuiEnvs, ok \in BOOLEAN :
          ClickRun(p, env, ok)
    \/ \E p \in GuiPrompts, env \in GuiEnvs, ok \in BOOLEAN :
          PressReturn(p, env, ok)
    \/ ClickCancel
    \/ CancelSleep(Main)
    \/ Poll

\* The program is followed until the user has started MaxWorkers runs.
GuiNext ==
    /\ \E r \in Runs : r <= MaxWorkers /\ pc[r] = "idle"
    /\ \/ Gui
       \/ \E r \in Runs : Worker(r)
       \/ Environment

GuiSpec == Init /\ [][GuiNext]_vars

\* The program with a user who starts one run, from either widget.
FirstClickRun(p, env, ok) ==
    /\ pc[1] = "idle"
    /\ ClickRun(p, env, ok)

FirstPressReturn(p, env, ok) ==
    /\ pc[1] = "idle"
    /\ PressReturn(p, env, ok)

Gui1Next ==
    \/ \E p \in GuiPrompts, env \in GuiEnvs, ok \in BOOLEAN :
          FirstClickRun(p, env, ok)
    \/ \E p \in GuiPrompts, env \in GuiEnvs, ok \in BOOLEAN :
          FirstPressReturn(p, env, ok)
    \/ ClickCancel
    \/ CancelSleep(Main)
    \/ Poll
    \/ Worker(1)
    \/ Environment

Gui1Spec == Init /\ [][Gui1Next]_vars

\* ------------------------------------------------------------------------
\* Vocabulary of the properties
\* ------------------------------------------------------------------------

\* Everything put on the queue so far, in the order it was put.
Sink == shown \o output_q

Is(r, kind, c) == c.by = r /\ c.kind = kind

\* The line numbers worker r has put, in order.
LinesOf(r) ==
    LET ls == SelectSeq(Sink, LAMBDA c : Is(r, "line", c)) IN
    [i \in 1..Len(ls) |-> ls[i].n]

Has(r, kind) == \E i \in 1..Len(Sink) : Is(r, kind, Sink[i])

UpTo(n) == [i \in 1..n |-> i]

\* Run r's process has exited by itself, with a code of its own.
ExitedByItself(r) ==
    procs[r].state = "exited" /\ procs[r].status \in ExitCodes

\* No cancel() has been called while a run was active, by the caller or by a
\* worker.
NoLiveCancel ==
    \A s \in Runs :
        ~hist[s].cancelled /\ ~hist[s].timedOut /\ ~hist[s].hung

\* r is the only run started so far.
OnlyRun(r) == \A s \in Runs : s # r => pc[s] = "idle"

\* ------------------------------------------------------------------------
\* Properties
\* ------------------------------------------------------------------------

\* C1: for every run_async call, on_done is invoked exactly once: never
\* twice, and once when the worker has ended, also when on_done raises.
C1_OnDoneExactlyOnce ==
    \A r \in Runs :
        /\ Len(doneCalls[r]) <= 1
        /\ pc[r] = "end" => Len(doneCalls[r]) = 1

\* C2: the timeout is enforced for every run: whenever a run's timeout has
\* elapsed while its process is still running, the run eventually reaches
\* Completed (its worker has invoked on_done and ended) unless the process
\* stops by itself, whatever the process does, also when it writes no line
\* after the timeout has elapsed and never exits.
C2_TimeoutEnforced ==
    \A r \in Runs :
        (expired[r] /\ procs[r].state = "running")
            ~> (pc[r] = "end" \/ procs[r].state # "running")

\* C3: cancel() calls made while no run is active have no effect on the runs
\* started afterwards: a run that ends normally, on a Runner whose cancel()
\* was never called during a run, has put every line of its process and has
\* reported the process's exit code once.
C3_IdleCancelNoEffect ==
    \A r \in Runs :
        ( /\ pc[r] = "end"
          /\ NoLiveCancel
          /\ ~hist[r].erred /\ ~hist[r].raised
          /\ ExitedByItself(r) )
        => /\ LinesOf(r) = UpTo(procs[r].emitted)
           /\ doneCalls[r] = << procs[r].status >>

\* The case of C4: the only run of a Runner, never cancelled by the caller,
\* not timed out, with no spawn or stream error, whose process has exited by
\* itself, and whose on_done has been invoked.
C4_Case(r) ==
    /\ OnlyRun(r)
    /\ ~hist[Main].cancelled
    /\ ~hist[r].timedOut
    /\ ~hist[r].erred
    /\ ExitedByItself(r)
    /\ doneCalls[r] # <<>>

\* C4 as stated: such a run has put exactly the lines l1..ln of its process,
\* in order, before on_done, and on_done got the process's exit code.
C4_AllLinesThenRealCode ==
    \A r \in Runs :
        C4_Case(r)
        => /\ LinesOf(r) = UpTo(procs[r].emitted)
           /\ doneCalls[r][1] = procs[r].status

\* C4, amended: the same, for a run whose process has exited before the
\* worker's 5-second wait expired.
C4_AllLinesThenRealCode_NoHang ==
    \A r \in Runs :
        (C4_Case(r) /\ ~hist[r].hung)
        => /\ LinesOf(r) = UpTo(procs[r].emitted)
           /\ doneCalls[r][1] = procs[r].status

\* C4, witness: a run of the amended case that emitted MaxLines lines and
\* exited with code 1.
C4_Witness ==
    \E r \in Runs :
        /\ C4_Case(r) /\ ~hist[r].hung
        /\ procs[r].emitted = MaxLines
        /\ doneCalls[r] = << 1 >>

\* C5 as stated: a run that took the timeout branch has the timeout notice in
\* the sink and its on_done gets the sentinel code -1, no other code.
C5_TimeoutYieldsSentinel ==
    \A r \in Runs :
        (hist[r].timedOut /\ doneCalls[r] # <<>>)
        => /\ Has(r, "timeout")
           /\ doneCalls[r][1] = HANG_CODE

\* C5, amended: a run that took the timeout branch put the timeout notice
\* before any signal was sent to its process (when the caller never called
\* cancel()); when its on_done is invoked the process has ended, and on_done
\* gets the exit status the wait returned: the process's own code if it had
\* exited by itself, the signal's status if it was terminated or killed.
C5_TimeoutYieldsWaitStatus ==
    \A r \in Runs :
        /\ ( /\ procs[r].state \in {"running", "exited"}
             /\ ~hist[Main].cancelled /\ ~hist[r].hung
             /\ procs[r].sig # "none" \/ procs[r].status = SIGKILL_STATUS )
           => Has(r, "timeout")
        /\ ( /\ hist[r].timedOut
             /\ doneCalls[r] # <<>>
             /\ procs[r].state # "detached" )
           => /\ Has(r, "timeout")
              /\ procs[r].state = "exited"
              /\ doneCalls[r][1] = procs[r].status
              /\ procs[r].status \in
                    ExitCodes \cup {SIGTERM_STATUS, SIGKILL_STATUS}

\* C5, witness: a timed-out run whose process died of SIGTERM and whose
\* on_done got that status.
C5_Witness ==
    \E r \in Runs :
        /\ hist[r].timedOut
        /\ ~hist[Main].cancelled
        /\ procs[r].status = SIGTERM_STATUS
        /\ doneCalls[r] = << SIGTERM_STATUS >>

\* C6: an abnormal run ends in a sentinel code after a diagnostic chunk and no
\* exception leaves the worker: a run whose wait expired has the hang notice
\* in the sink and ends with on_done(-1), a run with a spawn or stream error
\* has the error notice in the sink and ends with on_done(-2).
C6_AbnormalRunsContained ==
    \A r \in Runs :
        /\ (hist[r].hung /\ pc[r] = "end")
           => /\ Has(r, "hang")
              /\ doneCalls[r] = << HANG_CODE >>
        /\ (hist[r].erred /\ pc[r] = "end")
           => /\ Has(r, "error")
              /\ doneCalls[r] = << ERROR_CODE >>
        /\ (hist[r].hung \/ hist[r].erred) => ~escaped[r]

\* ------------------------------------------------------------------------
\* Properties of the translation dispatcher (specification TSpec)
\* ------------------------------------------------------------------------

NonBlank(p) == strip(p) # <<>>

\* The completions that are empty once stripped and freed of one pair of
\* backticks.
EmptyCompletions ==
    { RawEmpty, RawBlank, RawTicksOnly, RawOneTick, RawTickedBlank }

\* The ways a model attempt fails.
ModelErrors == { "RuntimeError", "FileNotFoundError", "Exception" }

\* C7 as stated: for a prompt that is not blank translate returns a command
\* that is not empty, whatever the model-backed strategy does.
C7_NonEmptyCommand ==
    (tOp = "translate" /\ NonBlank(tPrompt)) => tRet # <<>>

\* C7, amended: for a prompt that is not blank translate returns the empty
\* command exactly when the model attempt succeeded with a completion that
\* is empty once stripped and freed of its backticks; when the model is
\* unavailable, fails, or completes with text, the command is not empty.
C7_EmptyOnlyOnEmptyCompletion ==
    (tOp = "translate" /\ NonBlank(tPrompt))
    => ( tRet = <<>>
         <=> (tAttempt = "ok" /\ tEnv.text \in EmptyCompletions) )

\* C7, witness: the model call raised for a prompt that is not blank, and
\* the command of the rule table came back.
C7_Witness ==
    /\ tOp = "translate"
    /\ tPrompt = PListFilesCaps
    /\ tAttempt = "Exception"
    /\ tRet = CmdLs

\* C8 as stated: whenever the model-backed strategy is unavailable or its
\* attempt fails, translate(p) returns rule_based_translate(p) and raises
\* nothing.
C8_FallbackEqualsRules ==
    ( /\ tOp = "translate"
      /\ ~LLAMA_AVAILABLE \/ tAttempt \in ModelErrors )
    => /\ tRet = rule_based_translate(tPrompt)
       /\ tExc = "none"

\* C8, amended: the same for every prompt p that is not empty or
\* whitespace-only.
C8_FallbackEqualsRules_NonBlank ==
    ( /\ tOp = "translate"
      /\ NonBlank(tPrompt)
      /\ ~LLAMA_AVAILABLE \/ tAttempt \in ModelErrors )
    => /\ tRet = rule_based_translate(tPrompt)
       /\ tExc = "none"

\* C8, witness: the model file was missing and the rule table's command for
\* the prompt came back.
C8_Witness ==
    /\ tOp = "translate"
    /\ LLAMA_AVAILABLE
    /\ tAttempt = "FileNotFoundError"
    /\ tPrompt = PInstallVlc
    /\ tRet = CmdInstallVlc

\* C9: a call of translate with an empty or whitespace-only prompt returns
\* the empty string, invokes neither strategy and loads no model.
C9_BlankPromptNoStrategy ==
    [][ (tOp' = "translate" /\ ~NonBlank(tPrompt'))
        => /\ tRet' = <<>>
           /\ tExc' = "none"
           /\ tCalls' = {}
           /\ tAttempt' = "none"
           /\ LLM' = LLM ]_vars

\* C9, witness: translate was called with a whitespace-only prompt while the
\* model capability was available and its file on disk.
C9_Witness ==
    /\ tOp = "translate"
    /\ tPrompt = PBlankTab
    /\ LLAMA_AVAILABLE
    /\ tEnv.exists
    /\ tRet = <<>>

\* The indexes of the rules whose key is a substring of s.
Matching(s) == { i \in 1..Len(rules) : Contains(s, rules[i].k) }

\* C10: rule_based_translate returns the command of the first key, in the
\* declared order, that is a substring of the lower-cased prompt, and the
\* no-mapping echo command when no key matches; "list files" gives ls -la,
\* "install vlc" gives sudo apt install -y vlc, "do something obscure" gives
\* the no-mapping command, and "upgrade pip", which holds the keys ip and
\* upgrade, gives the command of ip, declared first.
C10_FirstDeclaredKeyWins ==
    tOp = "rule_based_translate"
    => /\ LET m == Matching(lower(tPrompt)) IN
          IF m = {}
          THEN tRet = CmdNoMapping
          ELSE \E i \in m : /\ \A j \in m : i <= j
                            /\ tRet = rules[i].v
       /\ tExc = "none"
       /\ tPrompt = PListFiles => tRet = CmdLs
       /\ tPrompt = PInstallVlc => tRet = CmdInstallVlc
       /\ tPrompt = PObscure => tRet = CmdNoMapping
       /\ tPrompt = PUpgradePip => tRet = CmdIp

\* C10, witness: a prompt two declared keys are substrings of.
C10_Witness ==
    /\ tOp = "rule_based_translate"
    /\ tPrompt = PPingInstall
    /\ Cardinality(Matching(lower(tPrompt))) = 2
    /\ tRet = CmdInstallVlc
\* ------------------------------------------------------------------------
\* C11  Under any interleaving of concurrent calls of ensure_model_loaded()
\*      the model is constructed at most once; once the handle is non-empty
\*      no step constructs or replaces it; a call that fails because the
\*      model file is missing leaves the handle empty.
\* ------------------------------------------------------------------------

C11_ModelLoadedOnce ==
    /\ [](loads <= 1)
    /\ [][ /\ LLM # "None" => LLM' = LLM /\ loads' = loads
          /\ \A t \in Loaders :
                (lexc'[t] = "FileNotFoundError" /\ lpc[t] = "locked")
                    => LLM' = "None" ]_vars

\* One thread has loaded the model while another was waiting for the lock,
\* and the other has then gone through the locked body and returned.
C11_Witness ==
    \E t, u \in Loaders :
        /\ t # u
        /\ loads = 1
        /\ LLM = "loaded"
        /\ lpc[t] = "returned"
        /\ lpc[u] = "returned"

\* ------------------------------------------------------------------------
\* C12  A failure of the history logger is contained: it does not change the
\*      exit code delivered for the run, causes no second on_done
\*      invocation, puts no extra diagnostic chunk in the sink and does not
\*      propagate as an exception into the worker.
\* ------------------------------------------------------------------------

C12_LoggerFailureContained ==
    \A r \in Runs :
        hist[r].raised =>
            /\ ~escaped[r]
            /\ Len(doneCalls[r]) <= 1
            /\ ~hist[r].erred => pc[r] # "exc" /\ ~Has(r, "error")

\* ------------------------------------------------------------------------
\* C13  Every history record carries, next to time, prompt, command and
\*      exit_code, the tag of the strategy that produced the command.
\* ------------------------------------------------------------------------

C14_AtMostOneRunActive ==
    Cardinality({ r \in Runs : Active(r) /\ doneCalls[r] = <<>> }) <= 1

\* ------------------------------------------------------------------------
\* C15  Once the cancellation flag has been set no further process output
\*      line is pushed to the sink: every line chunk in the sink was
\*      enqueued at a moment when the flag was still unset.
\* ------------------------------------------------------------------------

\* This step puts chunks on the queue and the first of them is a line of
\* worker r.
PushesLine(r) ==
    /\ Len(output_q') > Len(output_q)
    /\ Is(r, "line", output_q'[Len(output_q) + 1])

C15_NoLineAfterCancel ==
    [][ \A r \in Runs : cancelFlag => ~PushesLine(r) ]_vars

\* C15 as amended: the flag is tested once per line, before the line is put,
\* and the put is a later step.  A worker gets to the put only through a test
\* that found the flag unset, and it pushes one line from there and leaves:
\* after the flag has been set a worker pushes at most the one line it had
\* tested the flag for before.
C15_LineOnlyIfTestedBefore ==
    [][ \A r \in Runs :
          /\ (pc'[r] = "put" /\ pc[r] # "put")
                => (pc[r] = "check" /\ ~cancelFlag)
          /\ PushesLine(r)
                => /\ pc[r] = "put"
                   /\ pc'[r] # "put"
                   /\ \A i \in (Len(output_q) + 2)..Len(output_q') :
                         output_q'[i].kind # "line"
          /\ (pc[r] = "put" /\ pc'[r] # "put") => PushesLine(r) ]_vars

\* The caller has cancelled a run between the worker's test of the flag and
\* its put: the flag is set and the worker is about to push its second line.
C15_Witness ==
    \E r \in Runs :
        /\ cancelFlag
        /\ hist[r].cancelled
        /\ pc[r] = "put"
        /\ line[r] = 2
        /\ LinesOf(r) = UpTo(1)

\* ------------------------------------------------------------------------
\* C16  A cancel() issued at any moment after run_async and before on_done,
\*      the Starting phase included, stops the run: its process is
\*      eventually terminated and the run is completed, even if the process
\*      never writes a line and never exits by itself.
\* ------------------------------------------------------------------------

\* The part of it that fails: a run the caller has cancelled while it was
\* active is completed in the end.
C16_CancelStopsRun ==
    \A r \in Runs :
        (hist[r].cancelled /\ Active(r)) ~> (pc[r] = "end")

\* ------------------------------------------------------------------------
\* C17  cancel() escalates in two ordered phases and is idempotent: a
\*      running process is first sent the graceful termination, and the kill
\*      is sent after the grace period only if it has still not exited, so
\*      kill is never sent before terminate and never to an exited process;
\*      calling cancel() again leaves the runner in the state one call left.
\* ------------------------------------------------------------------------

\* This step sends SIGKILL to process p.
Kills(p) ==
    /\ procs[p].state = "running"
    /\ procs'[p].state = "exited"
    /\ procs'[p].status = SIGKILL_STATUS

C17_TwoPhasesIdempotent ==
    [][ /\ \A p \in Runs :
              /\ Kills(p)
                    => /\ procs[p].sig = "term"
                       /\ \E t \in Threads : pc[t] = "sleep" /\ pc'[t] # "sleep"
              /\ (procs[p].state = "exited" /\ procs'[p].state = "exited")
                    => /\ procs'[p].status = procs[p].status
                       /\ procs'[p].sig = procs[p].sig
        /\ (Cancel /\ cancelFlag /\ ~running(proc))
              => UNCHANGED << proc, procs, cancelFlag, output_q, shown, pc,
                              ret >>
        /\ ((Cancel \/ CancelSleep(Main)) /\ pc'[Main] = "ready")
              => /\ cancelFlag'
                 /\ proc' = 0 \/ procs'[proc'].state # "running" ]_vars

\* ------------------------------------------------------------------------
\* C18  The cancel flag is monotonic across runs: nothing clears it, so
\*      after any cancel() every later run on the same Runner stops at its
\*      first output line without pushing any line, and sends no termination
\*      signal to its process before the 5-second wait has expired.
\* ------------------------------------------------------------------------

\* Run r was started with the flag set and the caller has not called
\* cancel() during it.
C18_Case(r) == hist[r].flagAtStart /\ ~hist[r].cancelled

====
